---------------------------- MODULE Spec2Model ----------------------------
(***************************************************************************)
(* Python-3.2/Lib/distutils/sysconfig.py: the Makefile variable parser     *)
(* (parse_makefile), the expansion utility (expand_makefile_vars) and the  *)
(* lazily initialised configuration mapping (get_config_vars).             *)
(*                                                                         *)
(* Text is a sequence of atoms.  An atom is a TLA+ string standing for a   *)
(* run of characters of one class: "$", "(", ")", "{", "}", " ", one       *)
(* decimal digit, a run of name characters that starts with a letter, or   *)
(* an opaque word such as "-O2" holding none of the former.  A name is the *)
(* concatenation of the atoms of a run, so "PY_" followed by "CFLAGS" is   *)
(* the name "PY_CFLAGS".  A value of a dictionary is a record: an int n,   *)
(* or a str s.                                                             *)
(***************************************************************************)
EXTENDS Integers, Sequences, FiniteSets, TLC

VARIABLES
    file,        \* parse_makefile: the lines TextFile yields, in file order
    environ,     \* os.environ
    ln,          \* parse_makefile: number of lines read so far
    done,        \* parse_makefile: done
    notdone,     \* parse_makefile: notdone
    todo,        \* parse_makefile: the names of list(notdone) the for loop has yet to visit
    pc,          \* parse_makefile: position
    snap,        \* parse_makefile: notdone as list(notdone) saw it when the sweep began
    g,           \* parse_makefile: the mapping returned
    es,          \* expand_makefile_vars: s
    evars,       \* expand_makefile_vars: vars
    epc,         \* expand_makefile_vars: position
    config_vars, \* sysconfig._config_vars: None or the identity of a dict
    heap,        \* the dicts the initializers created: heap[id] maps key to value
    world,       \* the platform and the installation
    tpc,         \* get_config_vars: each thread's position
    tkind,       \* which accessor each thread is in, and with what arguments
    tret,        \* what each thread's last call gave
    calls,       \* calls each thread has started
    hist         \* what the calls did so far (initializer runs, results)

pvars == <<file, environ, ln, done, notdone, todo, snap, pc, g>>
evarsv == <<es, evars, epc>>
cvars == <<config_vars, heap, world, tpc, tkind, tret, calls, hist>>
vars == <<file, environ, ln, done, notdone, todo, snap, pc, g,
          es, evars, epc, config_vars, heap, world, tpc, tkind, tret, calls, hist>>

---------------------------------------------------------------------------
(* Characters *)

DigitStr == <<"0", "1", "2", "3", "4", "5", "6", "7", "8", "9">>
DigitAtoms == {DigitStr[i] : i \in 1..10}
\* runs of [A-Za-z0-9_] that start with a letter
NameAtoms == {"AA", "BB", "CC", "DD", "PY_", "CFLAGS", "LDFLAGS", "CPPFLAGS",
              "PY_CFLAGS", "PY_LDFLAGS", "PY_CPPFLAGS", "x"}

IsNameChar(a) == a \in NameAtoms \cup DigitAtoms

T(s) == [int |-> FALSE, n |-> 0, s |-> s]
I(n) == [int |-> TRUE, n |-> n, s |-> <<>>]
\* None, which is neither
NoneValue == [int |-> FALSE, n |-> -1, s |-> <<>>]
IsStr(v) == ~v.int /\ v # NoneValue

EmptyMap == [k \in {} |-> T(<<>>)]
Put(m, k, v) == [x \in DOMAIN m \cup {k} |-> IF x = k THEN v ELSE m[x]]
Del(m, k) == [x \in DOMAIN m \ {k} |-> m[x]]

---------------------------------------------------------------------------
(* str methods and int() *)

RECURSIVE LStrip(_)
LStrip(s) == IF s # <<>> /\ Head(s) = " " THEN LStrip(Tail(s)) ELSE s

RECURSIVE RStrip(_)
RStrip(s) == IF s # <<>> /\ s[Len(s)] = " " THEN RStrip(SubSeq(s, 1, Len(s) - 1)) ELSE s

\* str.strip()
Strip(s) == RStrip(LStrip(s))

\* str.replace('$$', new): leftmost, non-overlapping
RECURSIVE ReplaceEscapes(_, _)
ReplaceEscapes(s, new) ==
    IF Len(s) >= 2 /\ s[1] = "$" /\ s[2] = "$"
    THEN new \o ReplaceEscapes(SubSeq(s, 3, Len(s)), new)
    ELSE IF s = <<>> THEN <<>>
    ELSE <<Head(s)>> \o ReplaceEscapes(Tail(s), new)

\* "$" in s
HasDollar(s) == \E i \in 1..Len(s) : s[i] = "$"

\* whether int(s) succeeds: blanks around a non-empty run of digits
IsInt(s) == LET t == Strip(s) IN t # <<>> /\ \A i \in 1..Len(t) : t[i] \in DigitAtoms

DigitVal(a) == CHOOSE d \in 0..9 : DigitStr[d + 1] = a

RECURSIVE DigitsVal(_)
DigitsVal(t) == IF t = <<>> THEN 0
                ELSE 10 * DigitsVal(SubSeq(t, 1, Len(t) - 1)) + DigitVal(t[Len(t)])

\* int(s), for s with IsInt(s)
IntOf(s) == DigitsVal(Strip(s))

\* str(n) of an int n >= 0
RECURSIVE StrOfInt(_)
StrOfInt(n) == IF n < 10 THEN <<DigitStr[n + 1]>>
               ELSE StrOfInt(n \div 10) \o <<DigitStr[(n % 10) + 1]>>

\* str(v) of a dictionary value
Str(v) == IF v.int THEN StrOfInt(v.n) ELSE v.s

---------------------------------------------------------------------------
(* _findvar1_rx, _findvar2_rx *)

\* the last index of the run of name characters that starts at i (i - 1 if none)
RECURSIVE RunEnd(_, _)
RunEnd(s, i) == IF i <= Len(s) /\ IsNameChar(s[i]) THEN RunEnd(s, i + 1) ELSE i - 1

RECURSIVE Join(_)
Join(t) == IF t = <<>> THEN "" ELSE Head(t) \o Join(Tail(t))

\* \$ open ([A-Za-z][A-Za-z0-9_]*) close, matched at index i
MatchAt(s, i, open, close) ==
    /\ i + 3 <= Len(s)
    /\ s[i] = "$"
    /\ s[i + 1] = open
    /\ s[i + 2] \in NameAtoms
    /\ RunEnd(s, i + 2) + 1 <= Len(s)
    /\ s[RunEnd(s, i + 2) + 1] = close

NoMatch == [found |-> FALSE, start |-> 0, end |-> 0, name |-> ""]

\* rx.search(s): the leftmost match; end is the index of the closing bracket
Search(s, open, close) ==
    IF \E i \in 1..Len(s) : MatchAt(s, i, open, close)
    THEN LET i == CHOOSE k \in 1..Len(s) :
                      /\ MatchAt(s, k, open, close)
                      /\ \A l \in 1..(k - 1) : ~MatchAt(s, l, open, close)
             j == RunEnd(s, i + 2)
         IN [found |-> TRUE, start |-> i, end |-> j + 1,
             name |-> Join(SubSeq(s, i + 2, j))]
    ELSE NoMatch

findvar1 == <<"(", ")">>
findvar2 == <<"{", "}">>

\* _findvar1_rx.search(value) or _findvar2_rx.search(value)
FindVar(s) ==
    IF Search(s, findvar1[1], findvar1[2]).found
    THEN Search(s, findvar1[1], findvar1[2])
    ELSE Search(s, findvar2[1], findvar2[2])

---------------------------------------------------------------------------
(* parse_makefile *)

renamed_variables == {"CFLAGS", "LDFLAGS", "CPPFLAGS"}

\* name.startswith('PY_') and name[3:] in renamed_variables
IsPyRenamed(name) == \E r \in renamed_variables : name = "PY_" \o r

\* name[3:], for a name with IsPyRenamed(name)
Unprefixed(name) == CHOOSE r \in renamed_variables : name = "PY_" \o r

\* lines 292-298: int(v), or v with `$$' made a literal `$'
ScanValue(v) == IF IsInt(v) THEN I(IntOf(v)) ELSE T(ReplaceEscapes(v, <<"$">>))

\* lines 282-298: one line of the file; a line _variable_rx does not match is skipped
ScanLine(line, d, nd) ==
    IF ~line.assign THEN <<d, nd>>
    ELSE LET v == Strip(line.v)
             tmpv == ReplaceEscapes(v, <<>>)
         IN IF HasDollar(tmpv)
            THEN <<d, Put(nd, line.n, T(v))>>
            ELSE <<Put(d, line.n, ScanValue(v)), nd>>

\* lines 278-298
ReadLine ==
    /\ pc = "scan"
    /\ ln < Len(file)
    /\ ln' = ln + 1
    /\ done' = ScanLine(file[ln + 1], done, notdone)[1]
    /\ notdone' = ScanLine(file[ln + 1], done, notdone)[2]
    /\ UNCHANGED <<file, environ, todo, snap, pc, g>>
    /\ UNCHANGED <<evarsv, cvars>>

\* lines 279-281: readline() returns None
EndOfFile ==
    /\ pc = "scan"
    /\ ln = Len(file)
    /\ pc' = "while"
    /\ UNCHANGED <<file, environ, ln, done, notdone, todo, snap, g>>
    /\ UNCHANGED <<evarsv, cvars>>

\* lines 307-308: while notdone: for name in list(notdone)
StartSweep ==
    /\ pc = "while"
    /\ DOMAIN notdone # {}
    /\ snap' = notdone
    /\ todo' = DOMAIN notdone
    /\ pc' = "for"
    /\ UNCHANGED <<file, environ, ln, done, notdone, g>>
    /\ UNCHANGED <<evarsv, cvars>>

\* lines 314-333: what the reference n found in the value of name resolves to:
\* kind is "item" (found), "wait" (found = False), "default" (done[n] = item = "")
\* or "KeyError" (done['PY_' + n] of line 331 is missing)
Resolve(name, n, d, nd, env) ==
    IF n \in DOMAIN d THEN [kind |-> "item", item |-> Str(d[n])]
    ELSE IF n \in DOMAIN nd THEN [kind |-> "wait", item |-> <<>>]
    ELSE IF n \in DOMAIN env THEN [kind |-> "item", item |-> env[n]]
    ELSE IF n \in renamed_variables
         THEN IF IsPyRenamed(name) THEN [kind |-> "item", item |-> <<>>]
              ELSE IF ("PY_" \o n) \in DOMAIN nd THEN [kind |-> "wait", item |-> <<>>]
              ELSE IF ("PY_" \o n) \in DOMAIN d
                   THEN [kind |-> "item", item |-> Str(d["PY_" \o n])]
                   ELSE [kind |-> "KeyError", item |-> <<>>]
    ELSE [kind |-> "default", item |-> <<>>]

\* StoreValue without the int() of line 340
StoreValueAsStr(value) == T(Strip(value))

\* lines 340-344: the value stored in done[name]
StoreValue(value) == IF IsInt(value) THEN I(IntOf(value)) ELSE T(Strip(value))

\* lines 340-352: value after the try statement, which line 352 publishes
Published(value) == IF IsInt(value) THEN I(IntOf(value)) ELSE T(value)

\* lines 347-352
Publish(name, value, d) ==
    IF IsPyRenamed(name) /\ Unprefixed(name) \notin DOMAIN d
    THEN Put(d, Unprefixed(name), Published(value))
    ELSE d

\* line 337: if "$" in after
StillPending(after) == HasDollar(after)

\* lines 309-355: the body of the for loop for one name;
\* the result is <<done, notdone, raised>>
Body(name, d, nd, env) ==
    LET value == nd[name].s
        m == FindVar(value)
    IN IF ~m.found THEN <<d, Del(nd, name), FALSE>>
       ELSE LET r == Resolve(name, m.name, d, nd, env)
                d1 == IF r.kind = "default" THEN Put(d, m.name, T(<<>>)) ELSE d
                after == SubSeq(value, m.end + 1, Len(value))
                new == SubSeq(value, 1, m.start - 1) \o r.item \o after
            IN IF r.kind = "KeyError" THEN <<d, nd, TRUE>>
               ELSE IF r.kind = "wait" THEN <<d, nd, FALSE>>
               ELSE IF StillPending(after) THEN <<d1, Put(nd, name, T(new)), FALSE>>
               ELSE <<Publish(name, new, Put(d1, name, StoreValue(new))),
                      Del(nd, name), FALSE>>

\* lines 308-355: the for loop visits one name of list(notdone); a dict of
\* Python 3.2 yields its keys in an order the language does not define
Visit(name) ==
    /\ pc = "for"
    /\ name \in todo
    /\ LET b == Body(name, done, notdone, environ)
       IN /\ done' = b[1]
          /\ notdone' = b[2]
          /\ todo' = IF b[3] THEN todo ELSE todo \ {name}
          /\ pc' = IF b[3] THEN "raised"
                   ELSE IF todo \ {name} = {} THEN "while" ELSE "for"
    /\ UNCHANGED <<file, environ, ln, snap, g>>
    /\ UNCHANGED <<evarsv, cvars>>

\* line 308: the next name of list(notdone)
VisitNext == \E name \in todo : Visit(name)

\* lines 360-362: strip spurious spaces
StripAll(d) == [k \in DOMAIN d |-> IF d[k].int THEN d[k] ELSE T(Strip(d[k].s))]

\* lines 357-366, with g = {} on entry
Return ==
    /\ pc = "while"
    /\ DOMAIN notdone = {}
    /\ done' = StripAll(done)
    /\ g' = StripAll(done)
    /\ pc' = "return"
    /\ UNCHANGED <<file, environ, ln, notdone, todo, snap>>
    /\ UNCHANGED <<evarsv, cvars>>


---------------------------------------------------------------------------
(* expand_makefile_vars *)

\* Lookup as vars.get(name, "")
LookupOrEmpty(mapping, name) == IF name \in DOMAIN mapping THEN mapping[name] ELSE T(<<>>)

\* line 388: vars.get(name)
Lookup(mapping, name) == IF name \in DOMAIN mapping THEN mapping[name] ELSE NoneValue

\* lines 385-388: a reference is found and its value is a str: it is spliced in
ExpandSubst ==
    /\ epc = "loop"
    /\ FindVar(es).found
    /\ IsStr(Lookup(evars, FindVar(es).name))
    /\ es' = SubSeq(es, 1, FindVar(es).start - 1)
                \o Lookup(evars, FindVar(es).name).s
                \o SubSeq(es, FindVar(es).end + 1, Len(es))
    /\ UNCHANGED <<evars, epc>>
    /\ UNCHANGED <<pvars, cvars>>

\* line 388: str + None, or str + int, raises TypeError
ExpandRaise ==
    /\ epc = "loop"
    /\ FindVar(es).found
    /\ ~IsStr(Lookup(evars, FindVar(es).name))
    /\ epc' = "raised"
    /\ UNCHANGED <<es, evars>>
    /\ UNCHANGED <<pvars, cvars>>

\* lines 389-391: no reference is left
ExpandReturn ==
    /\ epc = "loop"
    /\ ~FindVar(es).found
    /\ epc' = "returned"
    /\ UNCHANGED <<es, evars>>
    /\ UNCHANGED <<pvars, cvars>>

---------------------------------------------------------------------------
(* _config_vars, _init_posix, _init_nt, _init_os2, get_config_vars *)

\* line 394: _config_vars = None; the dicts are heap[1], heap[2], ...
None == 0

MaxCalls == 3
MaxRaceCalls == 1

V(tag) == [v |-> tag, archs |-> 0]

\* what parse_makefile and parse_config_h put in g for this installation
MakefileKeys(w) ==
    ({"CC", "LDSHARED", "LDFLAGS", "BASECFLAGS", "CFLAGS", "PY_CFLAGS", "BLDSHARED"}
        \ {w.missing})
    \cup (IF w.srcdir = "missing" THEN {} ELSE {"srcdir"})
    \cup (IF w.darwin = "no" THEN {} ELSE {"MACOSX_DEPLOYMENT_TARGET"})

MakefileDict(w) ==
    [k \in MakefileKeys(w) |-> IF k = "srcdir" THEN V(w.srcdir) ELSE V("raw")]

\* lines 396-455: [raised, g]
InitPosix(w) ==
    IF w.install \in {"no_makefile", "no_config_h"}
    THEN [raised |-> TRUE, g |-> <<>>]    \* DistutilsPlatformError, lines 408, 420
    ELSE IF w.darwin # "no" /\ w.install = "target_mismatch"
    THEN [raised |-> TRUE, g |-> <<>>]    \* DistutilsPlatformError, line 435
    ELSE IF w.python_build
    THEN IF "BLDSHARED" \in MakefileKeys(w)
         THEN [raised |-> FALSE,
               g |-> Put(MakefileDict(w), "LDSHARED", MakefileDict(w)["BLDSHARED"])]
         ELSE [raised |-> TRUE, g |-> <<>>]    \* KeyError, line 441
    ELSE [raised |-> FALSE, g |-> MakefileDict(w)]

\* lines 458-474
InitNt == [raised |-> FALSE,
           g |-> [k \in {"LIBDEST", "BINLIBDEST", "INCLUDEPY", "SO", "EXE",
                         "VERSION", "BINDIR"} |-> V("raw")]]

\* lines 477-491
InitOs2 == [raised |-> FALSE,
            g |-> [k \in {"LIBDEST", "BINLIBDEST", "INCLUDEPY", "SO", "EXE"} |-> V("raw")]]

\* lines 506-510: func() if globals() has "_init_" + os.name, else {}
InitBlock(w) ==
    IF w.os_name = "posix" THEN InitPosix(w)
    ELSE IF w.os_name = "nt" THEN InitNt
    ELSE IF w.os_name = "os2" THEN InitOs2
    ELSE [raised |-> FALSE, g |-> [k \in {} |-> V("raw")]]

Raised == [kind |-> "raised", id |-> None, complete |-> FALSE]

\* the call of thread t ends with an exception
Raise(t) ==
    /\ tpc' = [tpc EXCEPT ![t] = "idle"]
    /\ tret' = [tret EXCEPT ![t] = Raised]

\* the calls a thread makes: more of them when it is the only thread
CallLimit == IF Cardinality(DOMAIN tpc) = 1 THEN MaxCalls ELSE MaxRaceCalls

\* a thread calls get_config_vars(), get_config_vars(name, ...) or get_config_var(name)
Call(t, kind) ==
    /\ tpc[t] = "idle"
    /\ calls[t] < CallLimit
    /\ calls' = [calls EXCEPT ![t] = @ + 1]
    /\ tkind' = [tkind EXCEPT ![t] = kind]
    /\ tpc' = [tpc EXCEPT ![t] = "check"]
    /\ UNCHANGED <<config_vars, heap, world, tret, hist>>
    /\ UNCHANGED <<pvars, evarsv>>

\* IsUnset with the test of line 505 lost
IsUnsetAlways(cv) == TRUE

\* line 505: _config_vars is None
IsUnset(cv) == cv = None

\* line 505
Check(t) ==
    /\ tpc[t] = "check"
    /\ tpc' = [tpc EXCEPT ![t] = IF IsUnset(config_vars) THEN "init" ELSE "ret"]
    /\ UNCHANGED <<config_vars, heap, world, tkind, tret, calls, hist>>
    /\ UNCHANGED <<pvars, evarsv>>

\* Install that keeps a mapping another run has installed
InstallOnce(cv, h) == IF cv = None THEN Len(h) + 1 ELSE cv

\* lines 455, 474, 491, 510: _config_vars = g, the dict this run created,
\* whatever _config_vars was
Install(cv, h) == Len(h) + 1

\* lines 506-510
RunInit(t) ==
    /\ tpc[t] = "init"
    /\ hist' = [hist EXCEPT !.inits = @ + 1]
    /\ IF InitBlock(world).raised
       THEN /\ Raise(t)
            /\ UNCHANGED <<config_vars, heap>>
       ELSE /\ heap' = Append(heap, InitBlock(world).g)
            /\ config_vars' = Install(config_vars, heap)
            /\ tpc' = [tpc EXCEPT ![t] = "prefix"]
            /\ UNCHANGED tret
    /\ UNCHANGED <<world, tkind, calls>>
    /\ UNCHANGED <<pvars, evarsv>>

\* line 515
SetPrefix(t) ==
    /\ tpc[t] = "prefix"
    /\ heap' = [heap EXCEPT ![config_vars] = Put(@, "prefix", V("PREFIX"))]
    /\ hist' = [hist EXCEPT !.posts = @ + 1]
    /\ tpc' = [tpc EXCEPT ![t] = "exec_prefix"]
    /\ UNCHANGED <<config_vars, world, tkind, tret, calls>>
    /\ UNCHANGED <<pvars, evarsv>>

\* line 516
SetExecPrefix(t) ==
    /\ tpc[t] = "exec_prefix"
    /\ heap' = [heap EXCEPT ![config_vars] = Put(@, "exec_prefix", V("EXEC_PREFIX"))]
    /\ tpc' = [tpc EXCEPT ![t] = "srcdir"]
    /\ UNCHANGED <<config_vars, world, tkind, tret, calls, hist>>
    /\ UNCHANGED <<pvars, evarsv>>

\* lines 522-530
FixSrcdir(t) ==
    /\ tpc[t] = "srcdir"
    /\ IF world.python_build /\ world.os_name = "posix"
       THEN IF "srcdir" \notin DOMAIN heap[config_vars]
            THEN Raise(t) /\ UNCHANGED heap    \* KeyError, line 524
            ELSE /\ heap' = [heap EXCEPT ![config_vars] =
                               IF @["srcdir"].v = "rel" THEN Put(@, "srcdir", V("abs")) ELSE @]
                 /\ tpc' = [tpc EXCEPT ![t] = "darwin"]
                 /\ UNCHANGED tret
       ELSE /\ tpc' = [tpc EXCEPT ![t] = "darwin"]
            /\ UNCHANGED <<heap, tret>>
    /\ UNCHANGED <<config_vars, world, tkind, calls, hist>>
    /\ UNCHANGED <<pvars, evarsv>>

\* lines 541-544, 560-563
FlagKeys == <<"LDFLAGS", "BASECFLAGS", "CFLAGS", "PY_CFLAGS", "BLDSHARED">>

\* lines 545-548: -arch and -isysroot removed; lines 565-568: -arch removed
\* and ARCHFLAGS added
Rewrite(val, how) ==
    IF how = "old" THEN [v |-> "stripped", archs |-> val.archs]
    ELSE [v |-> "stripped", archs |-> val.archs + 1]

\* the for loops of lines 541-548 and 560-568 from key number i on:
\* [raised, d]; _config_vars[key] of a missing key raises KeyError
RECURSIVE RewriteFrom(_, _, _)
RewriteFrom(d, i, how) ==
    IF i > Len(FlagKeys) THEN [raised |-> FALSE, d |-> d]
    ELSE IF FlagKeys[i] \notin DOMAIN d THEN [raised |-> TRUE, d |-> d]
    ELSE RewriteFrom(Put(d, FlagKeys[i], Rewrite(d[FlagKeys[i]], how)), i + 1, how)

\* lines 532-568
FixFlags(t) ==
    /\ tpc[t] = "darwin"
    /\ IF world.os_name = "posix" /\ world.darwin \in {"old", "arch"}
       THEN /\ heap' = [heap EXCEPT ![config_vars] = RewriteFrom(@, 1, world.darwin).d]
            /\ IF RewriteFrom(heap[config_vars], 1, world.darwin).raised
               THEN Raise(t)
               ELSE tpc' = [tpc EXCEPT ![t] = "ret"] /\ UNCHANGED tret
       ELSE /\ tpc' = [tpc EXCEPT ![t] = "ret"]
            /\ UNCHANGED <<heap, tret>>
    /\ UNCHANGED <<config_vars, world, tkind, calls, hist>>
    /\ UNCHANGED <<pvars, evarsv>>

\* lines 570-576 and 583: the mapping itself, or values looked up in it
Result(kind, cv, h) ==
    [kind |-> IF kind = "vars" THEN "map" ELSE "values",
     id |-> cv,
     complete |-> {"prefix", "exec_prefix"} \subseteq DOMAIN h[cv]]

\* lines 570-576
ReturnVars(t) ==
    /\ tpc[t] = "ret"
    /\ tret' = [tret EXCEPT ![t] = Result(tkind[t], config_vars, heap)]
    /\ tpc' = [tpc EXCEPT ![t] = "idle"]
    /\ hist' = IF hist.succ = 0
               THEN [hist EXCEPT !.succ = 1, !.first = config_vars,
                                 !.inits0 = hist.inits, !.posts0 = hist.posts]
               ELSE [hist EXCEPT !.succ = @ + 1]
    /\ UNCHANGED <<config_vars, heap, world, tkind, calls>>
    /\ UNCHANGED <<pvars, evarsv>>

---------------------------------------------------------------------------
(* The Makefiles and environments parse_makefile is run on *)

MaxLines == 2

Ref1(n) == <<"$", "(", n, ")">>
Ref2(n) == <<"$", "{", n, "}">>
Asg(n, v) == [assign |-> TRUE, n |-> n, v |-> v]
\* a line that is no assignment, such as a rule
Other == [assign |-> FALSE, n |-> "", v |-> <<>>]

LinePool ==
    { Asg("AA", <<"1">>),
      Asg("BB", Ref1("AA") \o <<"2">>),
      Asg("AA", Ref1("BB")),
      Asg("BB", Ref2("CC") \o <<" ">> \o Ref1("AA")),
      Asg("PY_CFLAGS", <<"-O2">>),
      Asg("BB", Ref1("CFLAGS")),
      Asg("PY_CFLAGS", Ref1("AA") \o <<" ", "-g">>),
      Asg("CFLAGS", Ref2("BB") \o <<"x">>),
      Asg("AA", <<"$", "$">>),
      Asg("BB", Ref1("AA") \o <<"(", "BB", ")", " ">> \o Ref1("CC")),
      Asg("AA", Ref1("CC") \o <<" ", "$", "$">>),
      Asg("AA", <<"$", "x">>),
      Other }

Files(pool) == UNION { [1..k -> pool] : k \in 0..MaxLines }

EnvPool == { EmptyMap,
             [k \in {"CC"} |-> <<"e">>],
             [k \in {"CFLAGS"} |-> <<"-g">>] }

ParseInit(f, env) ==
    /\ file = f
    /\ environ = env
    /\ ln = 0
    /\ done = EmptyMap
    /\ notdone = EmptyMap
    /\ todo = {}
    /\ snap = EmptyMap
    /\ pc = "scan"
    /\ g = EmptyMap

ExpandIdle ==
    /\ es = <<>>
    /\ evars = EmptyMap
    /\ epc = "idle"

ConfigIdle ==
    /\ config_vars = None
    /\ heap = <<>>
    /\ world = <<>>
    /\ tpc = <<>>
    /\ tkind = <<>>
    /\ tret = <<>>
    /\ calls = <<>>
    /\ hist = <<>>

Init ==
    /\ \E f \in Files(LinePool), env \in EnvPool : ParseInit(f, env)
    /\ ExpandIdle
    /\ ConfigIdle

Next == ReadLine \/ EndOfFile \/ StartSweep \/ VisitNext \/ Return

Spec == Init /\ [][Next]_vars

---------------------------------------------------------------------------
(* What a Makefile assigns and references *)

Assigned == {file[i].n : i \in {k \in 1..Len(file) : file[k].assign}}
FileDefines(n) == n \in Assigned

\* the last line that assigns n
LastLine(n) ==
    file[CHOOSE i \in 1..Len(file) :
            /\ file[i].assign /\ file[i].n = n
            /\ \A j \in (i + 1)..Len(file) : ~(file[j].assign /\ file[j].n = n)]

TimesAssigned(n) == Cardinality({i \in 1..Len(file) : file[i].assign /\ file[i].n = n})

\* the names of all the $(NAME) and ${NAME} references of a text
AllRefs(s) ==
    {Join(SubSeq(s, i + 2, RunEnd(s, i + 2))) :
        i \in {k \in 1..Len(s) : MatchAt(s, k, "(", ")") \/ MatchAt(s, k, "{", "}")}}

ContainsRef(s) == AllRefs(s) # {}

\* every "$" of the text is part of a `$$' escape or starts a reference
WellFormed(s) ==
    LET t == ReplaceEscapes(s, <<>>)
    IN \A i \in 1..Len(t) :
          t[i] = "$" => (MatchAt(t, i, "(", ")") \/ MatchAt(t, i, "{", "}"))

\* the names n refers to: in any of its assignments, and the PY_ name a
\* renamed variable stands for
Edges(n) ==
    UNION {AllRefs(file[i].v) : i \in {k \in 1..Len(file) : file[k].assign /\ file[k].n = n}}
    \cup (IF n \in renamed_variables THEN {"PY_" \o n} ELSE {})

RECURSIVE Reach(_)
Reach(S) == LET S1 == S \cup UNION {Edges(n) : n \in S}
            IN IF S1 = S THEN S ELSE Reach(S1)

Acyclic == \A n \in Assigned \cup renamed_variables : n \notin Reach(Edges(n))

---------------------------------------------------------------------------
(* Claims about parse_makefile *)

\* C1: for a Makefile with an acyclic reference graph, the mapping returned
\* holds every assigned variable whose text is made of escapes and
\* references, and no returned value still holds a $(NAME) or ${NAME}
\* reference.
C1_FullyExpanded ==
    (pc = "return" /\ Acyclic) =>
        /\ \A n \in Assigned :
              (\A i \in 1..Len(file) :
                   (file[i].assign /\ file[i].n = n) => WellFormed(file[i].v))
              => n \in DOMAIN g
        /\ \A n \in DOMAIN g : ~g[n].int => ~ContainsRef(g[n].s)

\* the loop was left by an exception while names were pending: nothing
\* empties notdone any more
Abandoned == pc = "raised" /\ DOMAIN notdone # {}

\* a whole sweep found every pending name waiting for another one and changed
\* nothing, so every later sweep does the same
IdleSweep == pc = "while" /\ DOMAIN snap # {} /\ notdone = snap

\* C2: for a Makefile with an acyclic reference graph the interpolation loop
\* ends with notdone empty: it is neither left with names pending nor does
\* it go through a sweep that changes nothing.
C2_Terminates == Acyclic => ~(Abandoned \/ IdleSweep)

\* C3: a reference to n resolves to the file's own value of n if the file
\* defines n (waiting while n is pending), else to the environment's value,
\* else to the value of PY_n if n is a renamed variable and the file defines
\* PY_n, else to the empty string.
C3_Precedence ==
    pc = "for" =>
      \A name \in todo :
        LET m == FindVar(notdone[name].s)
            n == m.name
            r == Resolve(name, n, done, notdone, environ)
        IN m.found =>
            IF FileDefines(n)
            THEN IF n \in DOMAIN notdone THEN r.kind = "wait"
                 ELSE r.kind = "item" /\ n \in DOMAIN done /\ r.item = Str(done[n])
            ELSE IF n \in DOMAIN environ
            THEN r.kind = "item" /\ r.item = environ[n]
            ELSE IF n \in renamed_variables /\ FileDefines("PY_" \o n)
            THEN \/ r.kind = "wait"
                 \/ /\ r.kind = "item"
                    /\ ("PY_" \o n) \in DOMAIN done
                    /\ r.item = Str(done["PY_" \o n])
            ELSE r.kind \in {"item", "default"} /\ r.item = <<>>

\* C4: no exception escapes the interpolation loop, whatever the file and
\* the environment.
C4_NoException == pc # "raised"

\* C5 as stated: only a right-hand side that is a numeric literal before any
\* substitution is stored as an int.
C5_IntOnlyFromLiteral ==
    pc = "return" =>
      \A n \in DOMAIN g :
        g[n].int => \E i \in 1..Len(file) :
                       /\ file[i].assign /\ file[i].n = n
                       /\ ~HasDollar(file[i].v)
                       /\ IsInt(file[i].v)

TypingExample == <<Asg("AA", <<"1">>), Asg("BB", Ref1("AA") \o <<"2">>)>>

\* C5 as amended: the text a substitution resolves is parsed by int() as a
\* literal right-hand side is, so no str of the result is the text of an
\* int, and AA = 1, BB = $(AA)2 gives the ints 1 and 12.
C5_IntAfterSubstitution ==
    pc = "return" =>
      /\ \A n \in DOMAIN g : ~g[n].int => ~IsInt(g[n].s)
      /\ file = TypingExample => g = [n \in {"AA", "BB"} |-> IF n = "AA" THEN I(1) ELSE I(12)]

C5_Witness == pc = "return" /\ file = TypingExample /\ g["BB"] = I(12)

\* C9: a name assigned more than once ends with the value of its last
\* assignment; stated for a last assignment that holds no "$".
C9_LastAssignmentWins ==
    pc = "return" =>
      \A n \in Assigned :
        (TimesAssigned(n) > 1 /\ ~HasDollar(LastLine(n).v)) =>
            /\ n \in DOMAIN g
            /\ g[n] = ScanValue(Strip(LastLine(n).v))

\* C10: during the sweeps an entry of done keeps its value.
C10_DoneStable ==
    [][pc = "for" => \A n \in DOMAIN done : n \in DOMAIN done' /\ done'[n] = done[n]]_vars

\* a whole sweep over list(notdone) has just ended; snap is notdone as the
\* sweep found it
SweepEnded == pc = "while" /\ DOMAIN snap # {}

\* C11: every full sweep removes at least one name from notdone, on every
\* input: when a sweep has ended, notdone holds fewer names than when the
\* sweep began.
C11_SweepShrinks ==
    SweepEnded => Cardinality(DOMAIN notdone) < Cardinality(DOMAIN snap)

---------------------------------------------------------------------------
(* The strings and mappings expand_makefile_vars is run on *)

MaxPieces == 3

Pieces == { Ref1("AA"), Ref2("BB"), Ref1("CC"), <<"x">> }

RECURSIVE Flatten(_)
Flatten(ps) == IF ps = <<>> THEN <<>> ELSE Head(ps) \o Flatten(Tail(ps))

ExpandTexts == {Flatten(ps) : ps \in UNION {[1..k -> Pieces] : k \in 0..MaxPieces}}

\* a str, an int as parse_makefile stores it, a value that holds a reference
ExpandValues == { T(<<"v">>), I(1), T(Ref2("BB")) }

ExpandMaps ==
    UNION {[D -> ExpandValues] : D \in SUBSET {"AA", "BB"}}

ParseIdle ==
    /\ file = <<>>
    /\ environ = EmptyMap
    /\ ln = 0
    /\ done = EmptyMap
    /\ notdone = EmptyMap
    /\ todo = {}
    /\ snap = EmptyMap
    /\ pc = "idle"
    /\ g = EmptyMap

ExpandInit ==
    /\ es \in ExpandTexts
    /\ evars \in ExpandMaps
    /\ epc = "loop"
    /\ ParseIdle
    /\ ConfigIdle

ExpandNext == ExpandSubst \/ ExpandRaise \/ ExpandReturn

SpecExpand == ExpandInit /\ [][ExpandNext]_vars

---------------------------------------------------------------------------
(* The platforms and installations get_config_vars is run on, and the threads *)

World(os, install, pb, srcdir, missing, darwin) ==
    [os_name |-> os, install |-> install, python_build |-> pb,
     srcdir |-> srcdir, missing |-> missing, darwin |-> darwin]

\* an installed POSIX Python whose files parse
PosixWorlds ==
    {World("posix", "ok", pb, srcdir, missing, darwin) :
        pb \in BOOLEAN, srcdir \in {"rel", "abs", "missing"},
        missing \in {"none", "BLDSHARED", "CFLAGS"},
        darwin \in {"no", "old", "arch", "new"}}

\* a Makefile or pyconfig.h that cannot be opened, a deployment target mismatch
BrokenWorlds ==
    { World("posix", "no_makefile", FALSE, "abs", "none", "no"),
      World("posix", "no_config_h", FALSE, "abs", "none", "no"),
      World("posix", "target_mismatch", FALSE, "abs", "none", "new") }

OtherWorlds ==
    {World(os, "ok", FALSE, "missing", "none", "no") : os \in {"nt", "os2", "java"}}

Worlds == PosixWorlds \cup BrokenWorlds \cup OtherWorlds

RaceWorlds ==
    { World("posix", "ok", FALSE, "abs", "none", "no"),
      World("posix", "ok", TRUE, "rel", "none", "arch"),
      World("posix", "ok", TRUE, "missing", "none", "old"),
      World("posix", "no_makefile", FALSE, "abs", "none", "no"),
      World("nt", "ok", FALSE, "missing", "none", "no"),
      World("java", "ok", FALSE, "missing", "none", "no") }

Kinds == {"vars", "args", "var"}

NoResult == [kind |-> "none", id |-> None, complete |-> FALSE]

ConfigInit(threads, worlds) ==
    /\ config_vars = None
    /\ heap = <<>>
    /\ world \in worlds
    /\ tpc = [t \in threads |-> "idle"]
    /\ tkind = [t \in threads |-> "vars"]
    /\ tret = [t \in threads |-> NoResult]
    /\ calls = [t \in threads |-> 0]
    /\ hist = [inits |-> 0, posts |-> 0, succ |-> 0, first |-> None,
               inits0 |-> 0, posts0 |-> 0]
    /\ ParseIdle
    /\ ExpandIdle

ConfigNext ==
    \/ \E t \in DOMAIN tpc, kind \in Kinds : Call(t, kind)
    \/ \E t \in DOMAIN tpc : Check(t)
    \/ \E t \in DOMAIN tpc : RunInit(t)
    \/ \E t \in DOMAIN tpc : SetPrefix(t)
    \/ \E t \in DOMAIN tpc : SetExecPrefix(t)
    \/ \E t \in DOMAIN tpc : FixSrcdir(t)
    \/ \E t \in DOMAIN tpc : FixFlags(t)
    \/ \E t \in DOMAIN tpc : ReturnVars(t)

\* one thread
SpecSingle == ConfigInit({1}, Worlds) /\ [][ConfigNext]_vars

\* two threads
SpecThreads == ConfigInit({1, 2}, RaceWorlds) /\ [][ConfigNext]_vars

\* C7: in one thread, once a call has returned, _config_vars stays the
\* mapping of that call, every later get_config_vars() returns it, and
\* neither the init block nor the post-processing block runs again.
C7_Memoized ==
    hist.succ >= 1 =>
        /\ config_vars = hist.first
        /\ hist.inits = hist.inits0
        /\ hist.posts = hist.posts0
        /\ \A t \in DOMAIN tpc : tret[t].kind = "map" => tret[t].id = hist.first

C7_Witness ==
    /\ hist.succ >= 2
    /\ hist.inits = 1
    /\ tret[1].kind = "map"
    /\ tret[1].id = hist.first

\* C8: nothing guards the init block: _config_vars always names the dict of
\* the initializer run that finished last, so a thread that found it unset
\* replaces the mapping another thread has installed meanwhile.
C8_LastInitializerWins == config_vars = Len(heap)

\* both threads found _config_vars unset, the initializer ran twice and the
\* two calls returned different mappings
C8_Witness ==
    /\ hist.inits = 2
    /\ tret[1].kind = "map"
    /\ tret[2].kind = "map"
    /\ tret[1].id # tret[2].id

\* a call returned the mapping before prefix and exec_prefix were in it
C8_ReturnedIncomplete ==
    \E t \in DOMAIN tpc : tret[t].kind = "map" /\ ~tret[t].complete

\* the whole post-processing block of lines 515-568 has been applied to the
\* mapping d of installation w
FullyProcessed(w, d) ==
    /\ {"prefix", "exec_prefix"} \subseteq DOMAIN d
    /\ (w.python_build /\ w.os_name = "posix") =>
           ("srcdir" \in DOMAIN d /\ d["srcdir"].v # "rel")
    /\ (w.os_name = "posix" /\ w.darwin \in {"old", "arch"}) =>
           \A i \in 1..Len(FlagKeys) :
               FlagKeys[i] \in DOMAIN d /\ d[FlagKeys[i]].v = "stripped"

\* the last call of thread t raised and t has not called again
HasRaised(t) == tpc[t] = "idle" /\ tret[t] = Raised

\* C12: initialization is all-or-nothing: after a call that raised,
\* _config_vars is still unset, and a mapping a call returns has had the
\* whole post-processing block applied.
C12_AllOrNothing ==
    /\ \A t \in DOMAIN tpc : HasRaised(t) => config_vars = None
    /\ \A t \in DOMAIN tpc :
          tret[t].kind = "map" => FullyProcessed(world, heap[tret[t].id])

=============================================================================
